---- MODULE Spec2Model ----
(***************************************************************************)
(* Model of DicomInsight.py: the DicomViewer window, its element tree      *)
(* builder (add_dicom_elements_to_tree) and its search and navigation      *)
(* handlers (search_tree, goto_next_result, goto_previous_result).         *)
(*                                                                         *)
(* Texts are sequences of one-character strings, so that strip(), lower()  *)
(* and the substring test `in` are computed as Python computes them.       *)
(*                                                                         *)
(* The name QTreeWidgetItemIterator, used at lines 184, 220 and 238, is    *)
(* not among the names imported at lines 8-10.  The model binds it to      *)
(* PyQt6.QtWidgets.QTreeWidgetItemIterator, Qt's pre-order item iterator   *)
(* (see TreeWidgetItemIterator below); with the import list as it stands   *)
(* each of the three loops would raise NameError instead.                  *)
(*                                                                         *)
(* Spec is the window under the user's events.  BuildSpec is the tree      *)
(* builder alone: open_file from line 114 on, applied to every dataset of  *)
(* Datasets, whose Elements may lack the tag, VR or value attribute that   *)
(* the code tests with hasattr (lines 124, 143, 144, 154).                 *)
(***************************************************************************)
EXTENDS Integers, Sequences, FiniteSets

----------------------------------------------------------------------------
(* Python str operations                                                   *)

UpperCase == <<"A", "B", "C", "D", "E", "F", "G", "H", "I", "J", "K", "L", "M", "N", "O", "P", "Q", "R", "S", "T", "U", "V", "W", "X", "Y", "Z">>

LowerCase == <<"a", "b", "c", "d", "e", "f", "g", "h", "i", "j", "k", "l", "m", "n", "o", "p", "q", "r", "s", "t", "u", "v", "w", "x", "y", "z">>

Whitespace == {" ", "\t"}

\* one character of str.lower()
ToLower(c) ==
    IF \E i \in 1..Len(UpperCase) : UpperCase[i] = c
    THEN LowerCase[CHOOSE i \in 1..Len(UpperCase) : UpperCase[i] = c]
    ELSE c

\* str.lower()
lower(s) == [i \in 1..Len(s) |-> ToLower(s[i])]

\* str.strip(): drop leading and trailing whitespace
strip(s) ==
    LET keep == {i \in 1..Len(s) : s[i] \notin Whitespace}
    IN  IF keep = {} THEN <<>>
        ELSE LET first == CHOOSE i \in keep : \A j \in keep : i <= j
                 last  == CHOOSE i \in keep : \A j \in keep : j <= i
             IN  SubSeq(s, first, last)

\* Python's `sub in text` on str
In(sub, text) ==
    \E i \in 0..(Len(text) - Len(sub)) : SubSeq(text, i + 1, i + Len(sub)) = sub

HexDigits == <<"0", "1", "2", "3", "4", "5", "6", "7", "8", "9", "A", "B", "C", "D", "E", "F">>

\* format spec 04X of a 16-bit value
Hex4(n) ==
    << HexDigits[((n \div 4096) % 16) + 1], HexDigits[((n \div 256) % 16) + 1],
       HexDigits[((n \div 16) % 16) + 1], HexDigits[(n % 16) + 1] >>

RECURSIVE Dec(_)
\* str(n) of a non-negative int
Dec(n) == IF n < 10 THEN << HexDigits[n + 1] >> ELSE Dec(n \div 10) \o << HexDigits[(n % 10) + 1] >>

----------------------------------------------------------------------------
(* Element data (pydicom DataElement) as read by pydicom.dcmread           *)

SQ == <<"S", "Q">>

PixelDataName == <<"P", "i", "x", "e", "l", " ", "D", "a", "t", "a">>

NotAvailable == <<"N", "/", "A">>

UnknownTag == <<"U", "n", "k", "n", "o", "w", "n">>

ImageDataText == <<"[", "I", "m", "a", "g", "e", " ", "D", "a", "t", "a", "]">>

\* A leaf element.  has_tag, has_VR, has_value are what hasattr(elem, ...)
\* answers; str_fails says that str(elem.value) raises, with text str_error.
Leaf(group, element, name, vr, value) ==
    [ has_tag |-> TRUE, group |-> group, element |-> element, name |-> name,
      has_VR |-> TRUE, VR |-> vr, has_value |-> TRUE, value |-> value,
      str_fails |-> FALSE, str_error |-> <<>>, items |-> <<>> ]

\* A sequence element: its value is the list of items, each a dataset.
Sequence(group, element, name, items) ==
    [ has_tag |-> TRUE, group |-> group, element |-> element, name |-> name,
      has_VR |-> TRUE, VR |-> SQ, has_value |-> TRUE, value |-> <<>>,
      str_fails |-> FALSE, str_error |-> <<>>, items |-> items ]

\* The number of items of the sequence in ct.dcm
SeqItems == 2

\* The k-th item of that sequence: a dataset of one element
ItemDataset(k) ==
    << Leaf(8, 4432 + k, <<"R", "e", "f">>, <<"U", "I">>, IF k % 2 = 1 THEN <<"1", ".">> \o Dec(k) ELSE <<"d", "o", "e">>) >>

\* A dataset with a leaf, a sequence of SeqItems items and the pixel data
CtDataset ==
    << Leaf(16, 16, <<"N", "a", "m", "e">>, <<"P", "N">>, <<"D", "o", "e", "^", "J">>),
       Sequence(8, 4416, <<"R", "e", "f", " ", "S", "e", "q">>, [k \in 1..SeqItems |-> ItemDataset(k)]),
       Leaf(32736, 16, PixelDataName, <<"O", "B">>, <<"d", "o", "e">>) >>

\* A dataset whose first element has a value that str() cannot convert and
\* whose second element has neither tag nor VR attribute.
OddDataset ==
    << [ Leaf(16, 48, <<"D", "a", "t", "e">>, <<"D", "A">>, <<>>) EXCEPT !.str_fails = TRUE, !.str_error = <<"b", "a", "d">> ],
       [ Leaf(0, 0, <<"O", "d", "d">>, <<>>, <<"x">>) EXCEPT !.has_VR = FALSE, !.has_tag = FALSE ],
       Leaf(16, 32, <<"I", "d">>, <<"L", "O">>, <<"d", "o", "e">>) >>

\* The files the Reader can be asked for: dcmread either returns a dataset
\* or raises (readable = FALSE).
Paths == {"ct.dcm", "odd.dcm", "bad.dcm"}

FileSystem ==
    [ p \in Paths |->
        CASE p = "ct.dcm"  -> [readable |-> TRUE,  dataset |-> CtDataset]
          [] p = "odd.dcm" -> [readable |-> TRUE,  dataset |-> OddDataset]
          [] OTHER         -> [readable |-> FALSE, dataset |-> <<>>] ]

\* QFileDialog cancelled, or no usable last_file_path in config.json
NoPath == ""

\* No dataset has been read yet
NoDataset == <<>>

\* The texts a user leaves in the search box
QueryTexts ==
    { <<>>, <<" ">>, <<"d", "o", "e">>, <<" ", "D", "O", "E", " ">>, <<"1">>, <<"i", "t">>, <<"n", "a">>, <<"z", "z">> }

----------------------------------------------------------------------------
(* QTreeWidget and QTreeWidgetItem                                         *)

\* parent = None in add_dicom_elements_to_tree
None == 0

\* A Python reference to a QTreeWidgetItem that QTreeWidget.clear() has
\* deleted; items of the current tree are referred to by their index in
\* tree.nodes (1, 2, ...).
Deleted == 0

EmptyTree == [nodes |-> <<>>, roots |-> <<>>]

\* QTreeWidgetItem(self.tree) and QTreeWidgetItem(parent): a new item with
\* empty texts and no background brush, appended to the top-level items or
\* to the children of parent.  The result is  [tree, item].
NewItem(tree, parent) ==
    LET item  == Len(tree.nodes) + 1
        fresh == [text |-> << <<>>, <<>>, <<>>, <<>> >>, children |-> <<>>, background |-> ""]
        nodes == Append(tree.nodes, fresh)
    IN  IF parent = None
        THEN [nodes |-> nodes, roots |-> Append(tree.roots, item)]
        ELSE [nodes |-> [nodes EXCEPT ![parent].children = Append(@, item)], roots |-> tree.roots]

\* item.setText(column, text)
setText(tree, item, column, text) ==
    [tree EXCEPT !.nodes[item].text[column + 1] = text]

\* item.text(column)
text(tree, item, column) == tree.nodes[item].text[column + 1]

\* item.setBackground(col, colour) for every col in range(item.columnCount())
setBackground(tree, item, colour) ==
    [tree EXCEPT !.nodes[item].background = colour]

RECURSIVE PreOrder(_, _)
\* The items below and including each of `items`, each item before its
\* children, children in order.
PreOrder(tree, items) ==
    IF items = <<>> THEN <<>>
    ELSE << Head(items) >> \o PreOrder(tree, tree.nodes[Head(items)].children)
                           \o PreOrder(tree, Tail(items))

\* QTreeWidgetItemIterator(self.tree), `iterator += 1` until iterator.value()
\* is None: every item of the tree in pre-order.
TreeWidgetItemIterator(tree) == PreOrder(tree, tree.roots)

\* `while iterator.value(): ... setBackground(col, QColor('white'))` (lines
\* 184-189 and 238-243)
ClearHighlights(tree) ==
    LET items == TreeWidgetItemIterator(tree)
        seen  == {items[k] : k \in 1..Len(items)}
    IN  [tree EXCEPT !.nodes = [i \in 1..Len(tree.nodes) |->
            IF i \in seen THEN [tree.nodes[i] EXCEPT !.background = "white"]
            ELSE tree.nodes[i]]]

----------------------------------------------------------------------------
(* add_dicom_elements_to_tree.  The builder state B is                     *)
(* [tree, raised, error]: the tree so far and the exception in flight.     *)

NoException == <<>>

AttributeErrorVR == <<"n", "o", " ", "a", "t", "t", "r", "i", "b", "u", "t", "e", " ", "V", "R">>

\* tag_str, line 124
TagStr(elem) ==
    IF elem.has_tag
    THEN <<"(">> \o Hex4(elem.group) \o <<",">> \o Hex4(elem.element) \o <<")">>
    ELSE UnknownTag

raise(B, error) == [B EXCEPT !.raised = TRUE, !.error = error]

RECURSIVE ForEachElement(_, _, _, _)
RECURSIVE ForEachItem(_, _, _, _)
RECURSIVE AddElement(_, _, _)

RECURSIVE ForEachItemNamed(_, _, _, _)
\* Mutant of ForEachItem: the label "Item k" is put in the Name column.
ForEachItemNamed(B, items, i, item) ==
    IF B.raised \/ i >= Len(items) THEN B
    ELSE LET t1    == NewItem(B.tree, item)
             child == Len(t1.nodes)
             B1    == [B EXCEPT !.tree = setText(t1, child, 1, <<"I", "t", "e", "m", " ">> \o Dec(i + 1))]
         IN  ForEachItemNamed(ForEachElement(B1, items[i + 1], 1, child), items, i + 1, item)

\* Mutant of OrdinaryLeaf: the exception of str(elem.value) is not caught.
OrdinaryLeafRaising(B, item, elem) ==
    IF elem.has_value /\ elem.str_fails
    THEN raise(B, elem.str_error)
    ELSE LET value == IF elem.has_value THEN elem.value ELSE NotAvailable
             vr    == IF elem.has_VR THEN elem.VR ELSE NotAvailable
         IN  [B EXCEPT !.tree = setText(setText(setText(@, item, 1, elem.name), item, 2, vr),
                                        item, 3, value)]

\* lines 141-151: an ordinary leaf
OrdinaryLeaf(B, item, elem) ==
    IF elem.has_value /\ elem.str_fails
    THEN [B EXCEPT !.tree = setText(setText(setText(@, item, 1, elem.name), item, 2, NotAvailable),
                                    item, 3, <<"C", "a", "n", "n", "o", "t", " ", "d", "i", "s", "p", "l", "a", "y", ":", " ">> \o elem.str_error)]
    ELSE LET value == IF elem.has_value THEN elem.value ELSE NotAvailable
             vr    == IF elem.has_VR THEN elem.VR ELSE NotAvailable
         IN  [B EXCEPT !.tree = setText(setText(setText(@, item, 1, elem.name), item, 2, vr),
                                        item, 3, value)]

\* Mutant of PixelDataLeaf: the value of the image data is converted like
\* that of any other leaf.
PixelDataStringified(B, item, elem) == OrdinaryLeaf(B, item, elem)

\* lines 152-155: the element named 'Pixel Data'
PixelDataLeaf(B, item, elem) ==
    LET vr == IF elem.has_VR THEN elem.VR ELSE NotAvailable
    IN  [B EXCEPT !.tree = setText(setText(setText(@, item, 1, elem.name), item, 2, vr),
                                   item, 3, ImageDataText)]

\* lines 124-155: the body of `for elem in dataset`
AddElement(B, elem, parent) ==
    LET t1   == NewItem(B.tree, parent)
        item == Len(t1.nodes)
        B1   == [B EXCEPT !.tree = setText(t1, item, 0, TagStr(elem))]
    IN  IF ~elem.has_VR THEN raise(B1, AttributeErrorVR)
        ELSE IF elem.VR = SQ
        THEN LET B2 == [B1 EXCEPT !.tree =
                          setText(setText(setText(@, item, 1, elem.name), item, 2, SQ), item, 3,
                                  <<"S", "e", "q", "u", "e", "n", "c", "e", ":", " ">> \o Dec(Len(elem.items)) \o <<" ", "i", "t", "e", "m", "s">>)]
             IN  ForEachItem(B2, elem.items, 0, item)
        ELSE IF elem.name # PixelDataName THEN OrdinaryLeaf(B1, item, elem)
        ELSE PixelDataLeaf(B1, item, elem)

\* lines 137-140: `for i, seq_item in enumerate(elem.value)`, from index i
ForEachItem(B, items, i, item) ==
    IF B.raised \/ i >= Len(items) THEN B
    ELSE LET t1    == NewItem(B.tree, item)
             child == Len(t1.nodes)
             B1    == [B EXCEPT !.tree = setText(t1, child, 0, <<"I", "t", "e", "m", " ">> \o Dec(i + 1))]
         IN  ForEachItem(ForEachElement(B1, items[i + 1], 1, child), items, i + 1, item)

\* line 123: `for elem in dataset`, from the k-th element
ForEachElement(B, dataset, k, parent) ==
    IF B.raised \/ k > Len(dataset) THEN B
    ELSE ForEachElement(AddElement(B, dataset[k], parent), dataset, k + 1, parent)

add_dicom_elements_to_tree(tree, dataset, parent) ==
    ForEachElement([tree |-> tree, raised |-> FALSE, error |-> NoException], dataset, 1, parent)

----------------------------------------------------------------------------
(* DicomViewer                                                             *)

VARIABLES
    tree,                  \* self.tree: the QTreeWidget's items
    ds,                    \* ds in open_file: the dataset dcmread returned last
    search_entry,          \* text of self.search_entry
    search_tag_check,      \* self.search_tag_check.isChecked()
    search_name_check,     \* self.search_name_check.isChecked()
    search_value_check,    \* self.search_value_check.isChecked()
    search_results,        \* self.search_results
    current_result_index,  \* self.current_result_index
    status_label,          \* text of self.status_label
    last_file_path,        \* self.last_file_path ("" for None)
    window_title,          \* file name shown in the window title ("" for none)
    reported,              \* the update_status calls of the latest handler, in order
    event,                 \* the latest handler run
    crashed                \* an exception left a slot: PyQt6 aborts the application

vars ==
    << tree, ds, search_entry, search_tag_check, search_name_check, search_value_check,
       search_results, current_result_index, status_label, last_file_path, window_title,
       reported, event, crashed >>

\* The DicomViewer object as one value
Self ==
    [ tree |-> tree, ds |-> ds, search_entry |-> search_entry, search_tag_check |-> search_tag_check,
      search_name_check |-> search_name_check, search_value_check |-> search_value_check,
      search_results |-> search_results, current_result_index |-> current_result_index,
      status_label |-> status_label, last_file_path |-> last_file_path,
      window_title |-> window_title, reported |-> reported, crashed |-> crashed ]

\* Status texts: the fixed part of the message and the values formatted into it
Message(kind, a, b, arg, path) == [kind |-> kind, a |-> a, b |-> b, arg |-> arg, path |-> path]

Ready == Message("Ready", 0, 0, <<>>, "")

PleaseEnterSearchText == Message("Please enter search text", 0, 0, <<>>, "")

PleaseSelectOption == Message("Please select at least one search option", 0, 0, <<>>, "")

FoundMatches(n) == Message("Found {} matches", n, 0, <<>>, "")

NoMatchesFound(search_text) == Message("No matches found for: {}", 0, 0, search_text, "")

ResultOf(i, n) == Message("Result {}/{}", i, n, <<>>, "")

SuccessfullyOpened(path) == Message("Successfully opened file: {}", 0, 0, <<>>, path)

FailedToOpen(error) == Message("Failed to open file: {}", 0, 0, error, "")

InvalidDicomError == <<"n", "o", "t", " ", "a", " ", "D", "I", "C", "O", "M", " ", "f", "i", "l", "e">>

\* line 191
update_status(self, message) ==
    [self EXCEPT !.status_label = message, !.reported = Append(@, message)]

\* self.tree.clear(), line 112: every item is deleted, and the references
\* to them that self.search_results still holds dangle.
clear(self) ==
    [self EXCEPT !.tree = EmptyTree,
                 !.search_results = [i \in 1..Len(@) |-> Deleted]]

\* lines 114-120: ds is shown as the tree, or the exception that
\* add_dicom_elements_to_tree raised is reported
show_dataset(self, file_path) ==
    LET B == add_dicom_elements_to_tree(self.tree, self.ds, None)
    IN  IF B.raised
        THEN update_status([self EXCEPT !.tree = B.tree], FailedToOpen(B.error))
        ELSE update_status([self EXCEPT !.tree = B.tree,
                                        !.window_title = file_path,
                                        !.last_file_path = file_path],
                           SuccessfullyOpened(file_path))

\* lines 101-120
open_file(self, file_path) ==
    IF file_path = NoPath THEN self
    ELSE LET s1 == clear(self)
         IN  IF ~FileSystem[file_path].readable
             THEN update_status(s1, FailedToOpen(InvalidDicomError))
             ELSE show_dataset([s1 EXCEPT !.ds = FileSystem[file_path].dataset], file_path)

\* Mutant of reset_search_results: current_result_index is not reset.
reset_keeps_index(self) ==
    [self EXCEPT !.search_results = <<>>,
                 !.tree = ClearHighlights(@)]

\* Mutant of reset_search_results: the highlights are not cleared.
reset_keeps_highlights(self) ==
    [self EXCEPT !.search_results = <<>>,
                 !.current_result_index = -1]

\* lines 178-189
reset_search_results(self) ==
    [self EXCEPT !.search_results = <<>>,
                 !.current_result_index = -1,
                 !.tree = ClearHighlights(@)]

\* Mutant of ItemMatches: every enabled field has to hold the text (AND).
ItemMatchesAll(t, item, search_text, search_tag, search_name, search_value) ==
    /\ search_tag \/ search_name \/ search_value
    /\ search_tag   => In(search_text, lower(text(t, item, 0)))
    /\ search_name  => In(search_text, lower(text(t, item, 1)))
    /\ search_value => In(search_text, lower(text(t, item, 3)))

\* lines 223-225: the test one item is put to
ItemMatches(t, item, search_text, search_tag, search_name, search_value) ==
    \/ search_tag   /\ In(search_text, lower(text(t, item, 0)))
    \/ search_name  /\ In(search_text, lower(text(t, item, 1)))
    \/ search_value /\ In(search_text, lower(text(t, item, 3)))

RECURSIVE FindFromPrepending(_, _, _, _, _, _, _)
\* Mutant of FindFrom: a match is put at the front of results.
FindFromPrepending(t, items, k, search_text, search_tag, search_name, search_value) ==
    IF k > Len(items) THEN <<>>
    ELSE FindFromPrepending(t, items, k + 1, search_text, search_tag, search_name, search_value)
         \o (IF ItemMatches(t, items[k], search_text, search_tag, search_name, search_value)
             THEN << items[k] >> ELSE <<>>)

RECURSIVE FindFrom(_, _, _, _, _, _, _)
\* lines 221-227: the loop from the k-th item of the iterator on
FindFrom(t, items, k, search_text, search_tag, search_name, search_value) ==
    IF k > Len(items) THEN <<>>
    ELSE (IF ItemMatches(t, items[k], search_text, search_tag, search_name, search_value)
          THEN << items[k] >> ELSE <<>>)
         \o FindFrom(t, items, k + 1, search_text, search_tag, search_name, search_value)

\* lines 218-228
find_matching_items(self, search_text, search_tag, search_name, search_value) ==
    FindFrom(self.tree, TreeWidgetItemIterator(self.tree), 1,
             search_text, search_tag, search_name, search_value)

\* Mutant of highlight_current_result: the other items are not reset to white.
highlight_without_reset(self) ==
    IF \/ self.search_results = <<>>
       \/ self.current_result_index < 0
       \/ self.current_result_index >= Len(self.search_results)
    THEN self
    ELSE LET item == self.search_results[self.current_result_index + 1]
         IN  IF item = Deleted
             THEN [self EXCEPT !.crashed = TRUE]
             ELSE update_status([self EXCEPT !.tree = setBackground(@, item, "yellow")],
                                ResultOf(self.current_result_index + 1, Len(self.search_results)))

\* lines 230-251.  An item of a cleared tree has been deleted: using it
\* raises RuntimeError, which nothing catches.
highlight_current_result(self) ==
    IF \/ self.search_results = <<>>
       \/ self.current_result_index < 0
       \/ self.current_result_index >= Len(self.search_results)
    THEN self
    ELSE LET item == self.search_results[self.current_result_index + 1]
             s1   == [self EXCEPT !.tree = ClearHighlights(@)]
         IN  IF item = Deleted
             THEN [s1 EXCEPT !.crashed = TRUE]
             ELSE update_status([s1 EXCEPT !.tree = setBackground(@, item, "yellow")],
                                ResultOf(self.current_result_index + 1, Len(self.search_results)))

\* Mutant of Mod: the remainder takes the sign of a, as C's % does.
ModTruncated(a, n) == IF a < 0 THEN -((-a) % n) ELSE a % n

\* Python's a % n for n > 0: the result is in 0..n-1
Mod(a, n) == a % n

\* Mutant of goto_next_result: the index is advanced before the test for an
\* empty list.
goto_next_counts_first(self) ==
    IF self.search_results = <<>>
    THEN [self EXCEPT !.current_result_index = @ + 1]
    ELSE highlight_current_result(
            [self EXCEPT !.current_result_index = Mod(@ + 1, Len(self.search_results))])

\* lines 253-257
goto_next_result(self) ==
    IF self.search_results = <<>> THEN self
    ELSE highlight_current_result(
            [self EXCEPT !.current_result_index = Mod(@ + 1, Len(self.search_results))])

\* lines 259-263
goto_previous_result(self) ==
    IF self.search_results = <<>> THEN self
    ELSE highlight_current_result(
            [self EXCEPT !.current_result_index = Mod(@ - 1, Len(self.search_results))])

\* lines 194-216
search_tree(self) ==
    LET search_text == lower(strip(self.search_entry))
    IN  IF search_text = <<>> THEN update_status(self, PleaseEnterSearchText)
        ELSE LET s1 == reset_search_results(self)
             IN  IF ~(s1.search_tag_check \/ s1.search_name_check \/ s1.search_value_check)
                 THEN update_status(s1, PleaseSelectOption)
                 ELSE LET s2 == [s1 EXCEPT !.search_results =
                                     find_matching_items(s1, search_text, s1.search_tag_check,
                                                         s1.search_name_check, s1.search_value_check)]
                      IN  IF s2.search_results # <<>>
                          THEN goto_next_result(update_status(s2, FoundMatches(Len(s2.search_results))))
                          ELSE update_status(s2, NoMatchesFound(search_text))

\* lines 26-35, before load_last_file
Constructed ==
    [ tree |-> EmptyTree, ds |-> NoDataset, search_entry |-> <<>>, search_tag_check |-> TRUE,
      search_name_check |-> TRUE, search_value_check |-> TRUE,
      search_results |-> <<>>, current_result_index |-> -1,
      status_label |-> Ready, last_file_path |-> NoPath,
      window_title |-> NoPath, reported |-> <<>>, crashed |-> FALSE ]

\* lines 166-176: open the path config.json names, when there is one
load_last_file(self, config_path) == open_file(self, config_path)

\* The variables take the fields of self
Is(self) ==
    /\ tree = self.tree
    /\ ds = self.ds
    /\ search_entry = self.search_entry
    /\ search_tag_check = self.search_tag_check
    /\ search_name_check = self.search_name_check
    /\ search_value_check = self.search_value_check
    /\ search_results = self.search_results
    /\ current_result_index = self.current_result_index
    /\ status_label = self.status_label
    /\ last_file_path = self.last_file_path
    /\ window_title = self.window_title
    /\ reported = self.reported
    /\ crashed = self.crashed

\* A handler started from the event loop: it runs to completion on self
Becomes(self) ==
    /\ tree' = self.tree
    /\ ds' = self.ds
    /\ search_entry' = self.search_entry
    /\ search_tag_check' = self.search_tag_check
    /\ search_name_check' = self.search_name_check
    /\ search_value_check' = self.search_value_check
    /\ search_results' = self.search_results
    /\ current_result_index' = self.current_result_index
    /\ status_label' = self.status_label
    /\ last_file_path' = self.last_file_path
    /\ window_title' = self.window_title
    /\ reported' = self.reported
    /\ crashed' = self.crashed

\* self as a handler finds it: nothing reported yet
Entered == [Self EXCEPT !.reported = <<>>]

Init ==
    /\ \E config_path \in Paths \cup {NoPath} : Is(load_last_file(Constructed, config_path))
    /\ event = "__init__"

\* open_button.clicked, line 50: the dialog returns a path, or "" when cancelled
OpenClicked ==
    /\ ~crashed
    /\ \E file_path \in Paths \cup {NoPath} : Becomes(open_file(Entered, file_path))
    /\ event' = "open_file"

\* search_entry.textChanged, line 57: the user edits the text to new_text
TextChanged ==
    /\ ~crashed
    /\ \E new_text \in QueryTexts :
          /\ new_text # search_entry
          /\ Becomes(search_tree([Entered EXCEPT !.search_entry = new_text]))
    /\ event' = "search_tree"

\* next_button.clicked (F3), line 71
NextClicked ==
    /\ ~crashed
    /\ Becomes(goto_next_result(Entered))
    /\ event' = "goto_next_result"

\* prev_button.clicked (F2), line 70
PreviousClicked ==
    /\ ~crashed
    /\ Becomes(goto_previous_result(Entered))
    /\ event' = "goto_previous_result"

\* The user ticks or unticks one of the three check boxes (lines 59-65); no
\* slot is connected to them.
ToggleTag ==
    /\ ~crashed
    /\ Becomes([Entered EXCEPT !.search_tag_check = ~@])
    /\ event' = "search_tag_check"

ToggleName ==
    /\ ~crashed
    /\ Becomes([Entered EXCEPT !.search_name_check = ~@])
    /\ event' = "search_name_check"

ToggleValue ==
    /\ ~crashed
    /\ Becomes([Entered EXCEPT !.search_value_check = ~@])
    /\ event' = "search_value_check"

Next ==
    \/ OpenClicked
    \/ TextChanged
    \/ NextClicked
    \/ PreviousClicked
    \/ ToggleTag
    \/ ToggleName
    \/ ToggleValue

Spec == Init /\ [][Next]_vars

----------------------------------------------------------------------------
(* add_dicom_elements_to_tree on the datasets a Reader can hand over       *)

\* The deepest nesting of sequences in a generated dataset
MaxDepth == 2

\* The most elements at the top level of a generated dataset
MaxElems == 2

RefSeqName == <<"R", "e", "f", " ", "S", "e", "q">>

\* An element with all its attributes
PlainLeaf == Leaf(16, 16, <<"N", "a", "m", "e">>, <<"P", "N">>, <<"D", "o", "e">>)

\* An element whose value str() cannot convert (line 143 raises)
UnprintableLeaf ==
    [ Leaf(16, 48, <<"D", "a", "t", "e">>, <<"D", "A">>, <<>>) EXCEPT !.str_fails = TRUE, !.str_error = <<"b", "a", "d">> ]

\* Elements for which hasattr(elem, 'tag'), hasattr(elem, 'VR') or
\* hasattr(elem, 'value') (lines 124, 143, 144, 154) is False
NoTagLeaf == [ Leaf(0, 0, <<"O", "d", "d">>, <<"L", "O">>, <<"x">>) EXCEPT !.has_tag = FALSE ]

NoVRLeaf == [ Leaf(16, 32, <<"I", "d">>, <<>>, <<"x">>) EXCEPT !.has_VR = FALSE ]

NoValueLeaf == [ Leaf(16, 64, <<"S", "e", "x">>, <<"C", "S">>, <<>>) EXCEPT !.has_value = FALSE ]

\* The image data, and image data whose value str() cannot convert
PixelLeaf == Leaf(32736, 16, PixelDataName, <<"O", "B">>, <<"d", "o", "e">>)

UnprintablePixelLeaf == [ PixelLeaf EXCEPT !.str_fails = TRUE, !.str_error = <<"b", "a", "d">> ]

Leaves == { PlainLeaf, UnprintableLeaf, NoTagLeaf, NoVRLeaf, NoValueLeaf, PixelLeaf, UnprintablePixelLeaf }

\* The leaves put into the items of sequences
ItemLeaves == { PlainLeaf, UnprintableLeaf, NoVRLeaf }

RECURSIVE ItemAt(_, _)
\* An item that holds sequences nested depth - 1 deep, followed by leaf
ItemAt(depth, leaf) ==
    IF depth = 1 THEN << leaf >>
    ELSE << Sequence(8, 4416, RefSeqName, [k \in 1..SeqItems |-> ItemAt(depth - 1, leaf)]), leaf >>

\* Elements of VR SQ, without items or with SeqItems items, one of them
\* named like the image data
Sequences ==
    { Sequence(8, 4416, name, [k \in 1..n |-> ItemAt(depth, leaf)]) :
        name \in {RefSeqName, PixelDataName}, n \in {0, SeqItems},
        depth \in 1..MaxDepth, leaf \in ItemLeaves }

Elements == Leaves \cup Sequences

\* The datasets dcmread may return
Datasets == UNION { [1..n -> Elements] : n \in 0..MaxElems }

\* The path of the file that holds the dataset
AnyPath == "any.dcm"

\* open_file after line 113: the tree is cleared and dcmread has returned ds
BuildInit ==
    /\ \E dataset \in Datasets : Is([clear(Constructed) EXCEPT !.ds = dataset])
    /\ event = "dcmread"

\* open_file from line 114 on
ShowDataset ==
    /\ event = "dcmread"
    /\ Becomes(show_dataset(Entered, AnyPath))
    /\ event' = "open_file"

BuildNext == ShowDataset

BuildSpec == BuildInit /\ [][BuildNext]_vars

----------------------------------------------------------------------------
(* Vocabulary of the properties                                            *)

Items == 1..Len(tree.nodes)

\* The items marked as the current search result
Highlighted == {i \in Items : tree.nodes[i].background = "yellow"}

\* query, as runSearch sees it
Query == lower(strip(search_entry))

AnyFieldEnabled == search_tag_check \/ search_name_check \/ search_value_check

\* The item matches Query on an enabled field
Hit(i) ==
    \/ search_tag_check   /\ In(Query, lower(tree.nodes[i].text[1]))
    \/ search_name_check  /\ In(Query, lower(tree.nodes[i].text[2]))
    \/ search_value_check /\ In(Query, lower(tree.nodes[i].text[4]))

Matched == {search_results[k] : k \in 1..Len(search_results)}

Live == \A k \in 1..Len(search_results) : search_results[k] # Deleted

\* The latest step was runSearch on a non-empty query with a field enabled
Searched == event = "search_tree" /\ Query # <<>> /\ AnyFieldEnabled

\* Document order, from the parent and child links alone
IndexOf(seq, x) == CHOOSE k \in 1..Len(seq) : seq[k] = x

IsTopLevel(i) == \E k \in 1..Len(tree.roots) : tree.roots[k] = i

ParentOf(i) == CHOOSE p \in Items : \E k \in 1..Len(tree.nodes[p].children) : tree.nodes[p].children[k] = i

RECURSIVE PathOf(_)
\* The child indexes that lead from the top level down to item i
PathOf(i) ==
    IF IsTopLevel(i) THEN << IndexOf(tree.roots, i) >>
    ELSE PathOf(ParentOf(i)) \o << IndexOf(tree.nodes[ParentOf(i)].children, i) >>

\* p comes before q in document order: p is a proper prefix of q, or p is
\* smaller at the first index where they differ
Before(p, q) ==
    \/ Len(p) < Len(q) /\ SubSeq(q, 1, Len(p)) = p
    \/ \E k \in 1..Len(p) :
          /\ k <= Len(q)
          /\ SubSeq(p, 1, k - 1) = SubSeq(q, 1, k - 1)
          /\ p[k] < q[k]

----------------------------------------------------------------------------
C2_ReadFailureKeepsState ==
    [][(event' = "open_file" /\ reported' = << FailedToOpen(InvalidDicomError) >>) =>
          /\ tree' = tree
          /\ search_results' = search_results
          /\ current_result_index' = current_result_index]_vars

RECURSIVE NextTimes(_, _)
\* next() called n times
NextTimes(self, n) == IF n = 0 THEN self ELSE NextTimes(goto_next_result(self), n - 1)

\* One next()/previous() step over N >= 1 matches
C4_Step ==
    (event' \in {"goto_next_result", "goto_previous_result"} /\ search_results # <<>>) =>
        LET N         == Len(search_results)
            direction == IF event' = "goto_next_result" THEN 1 ELSE -1
        IN  /\ search_results' = search_results
            /\ current_result_index' \in 0..(N - 1)
            /\ \E k \in {-1, 0, 1} : current_result_index' = current_result_index + direction + k * N
            /\ (direction = 1 /\ current_result_index = N - 1) => current_result_index' = 0
            /\ (direction = -1 /\ current_result_index = 0) => current_result_index' = N - 1

\* N times next(), and next() then previous(), end on the cursor they began at
C4_RoundTrips ==
    (search_results # <<>> /\ ~crashed) =>
        /\ NextTimes(Self, Len(search_results)).current_result_index = current_result_index
        /\ goto_previous_result(goto_next_result(Self)).current_result_index = current_result_index

C17_EmptyNavigationIsNoOp ==
    [][(event' \in {"goto_next_result", "goto_previous_result"} /\ search_results = <<>>) =>
          /\ tree' = tree
          /\ search_results' = <<>>
          /\ current_result_index = -1
          /\ current_result_index' = -1
          /\ status_label' = status_label
          /\ reported' = <<>>
          /\ crashed' = crashed]_vars

\* next() has run over a loaded tree with no match list
C17_Witness ==
    /\ event = "goto_next_result"
    /\ search_results = <<>>
    /\ current_result_index = -1
    /\ reported = <<>>
    /\ Items # {}

\* Item i is the header of a sequence item: a child of a sequence's node
IsHeader(i) == ~IsTopLevel(i) /\ text(tree, ParentOf(i), 2) = SQ

\* The label of header i: "Item k" for the k-th child of its parent
HeaderLabel(i) ==
    <<"I", "t", "e", "m", " ">> \o Dec(IndexOf(tree.nodes[ParentOf(i)].children, i))

----------------------------------------------------------------------------
(* Properties of the tree that add_dicom_elements_to_tree builds           *)

\* ShowDataset has run: tree is what was built from ds
Built == event = "open_file"

\* The built tree, flattened in pre-order
Flat == PreOrder(tree, tree.roots)

\* An Element of type code SQ
IsSequence(elem) == elem.has_VR /\ elem.VR = SQ

RECURSIVE SomeUntyped(_)
\* Some Element of the dataset, at any depth, has no type code
SomeUntyped(dataset) ==
    \E k \in 1..Len(dataset) :
        \/ ~dataset[k].has_VR
        \/ \E i \in 1..Len(dataset[k].items) : SomeUntyped(dataset[k].items[i])

RECURSIVE SourceCount(_)
RECURSIVE SourceItemsCount(_)
\* The number of Elements at all depths of a dataset plus the number of
\* items of all its sequences
SourceCount(dataset) ==
    IF dataset = <<>> THEN 0
    ELSE 1 + (IF IsSequence(Head(dataset)) THEN SourceItemsCount(Head(dataset).items) ELSE 0)
           + SourceCount(Tail(dataset))

\* The same for the items of one sequence: each item counts once itself
SourceItemsCount(items) ==
    IF items = <<>> THEN 0
    ELSE 1 + SourceCount(Head(items)) + SourceItemsCount(Tail(items))

\* C11: the tree built from a dataset has exactly one node per Element at
\* every depth and one header node per item of every sequence: its
\* flattened node count is the number of Elements plus the number of items.
C11_NodePerElementAndItem ==
    Built => Len(Flat) = SourceCount(ds)

\* The count of C11 on the datasets whose Elements all have a type code
CountWhenAllTyped ==
    (Built /\ ~SomeUntyped(ds)) => (Len(Flat) = SourceCount(ds) /\ Len(tree.nodes) = SourceCount(ds))


RECURSIVE FlatAt(_, _)
\* The items below and including each of `items` in pre-order, each with
\* its depth, `items` being at depth `depth`
FlatAt(items, depth) ==
    IF items = <<>> THEN <<>>
    ELSE << [item |-> Head(items), depth |-> depth] >>
         \o FlatAt(tree.nodes[Head(items)].children, depth + 1)
         \o FlatAt(Tail(items), depth)

\* The tag label of an Element: "(GGGG,EEEE)", or "Unknown" without a tag
TagLabel(elem) ==
    IF elem.has_tag
    THEN <<"(">> \o Hex4(elem.group) \o <<",">> \o Hex4(elem.element) \o <<")">>
    ELSE <<"U", "n", "k", "n", "o", "w", "n">>

RECURSIVE SourceFlat(_, _)
RECURSIVE SourceItemsFlat(_, _, _)
\* The pre-order traversal of a dataset at depth `depth`: every Element,
\* and after a sequence each of its items followed by the item's Elements
SourceFlat(dataset, depth) ==
    IF dataset = <<>> THEN <<>>
    ELSE << [header |-> FALSE, label |-> TagLabel(Head(dataset)), name |-> Head(dataset).name, depth |-> depth,
              elem |-> Head(dataset)] >>
         \o (IF IsSequence(Head(dataset)) THEN SourceItemsFlat(Head(dataset).items, 1, depth + 1) ELSE <<>>)
         \o SourceFlat(Tail(dataset), depth)

\* The items k, k + 1, ... of one sequence
SourceItemsFlat(items, k, depth) ==
    IF k > Len(items) THEN <<>>
    ELSE << [header |-> TRUE, label |-> <<"I", "t", "e", "m", " ">> \o Dec(k), name |-> <<>>, depth |-> depth] >>
         \o SourceFlat(items[k], depth + 1)
         \o SourceItemsFlat(items, k + 1, depth)

\* The built tree, flattened, is the pre-order traversal of the dataset:
\* node by node the same depth and the tag label of the Element or the
\* label "Item k" of the item
SameOrder(dataset) ==
    LET src  == SourceFlat(dataset, 0)
        flat == FlatAt(tree.roots, 0)
    IN  /\ Len(flat) = Len(src)
        /\ \A k \in 1..Len(flat) :
            k <= Len(src) =>
                /\ flat[k].depth = src[k].depth
                /\ text(tree, flat[k].item, 0) = src[k].label

\* Node by node, the name of the Element as well (none for an item)
SameNames(dataset) ==
    LET src  == SourceFlat(dataset, 0)
        flat == FlatAt(tree.roots, 0)
    IN  \A k \in 1..Len(flat) :
            k <= Len(src) => text(tree, flat[k].item, 1) = src[k].name

\* C12: the built tree flattened in pre-order has its nodes in the order of
\* the pre-order traversal of the source: siblings keep source order and
\* the children of a sequence node are the headers "Item 1".."Item N" in
\* item order, each followed at once by the subtree built from its item.
C12_PreOrderOfSource ==
    Built => SameOrder(ds)

\* The order of C12 on the datasets whose Elements all have a type code
OrderWhenAllTyped ==
    (Built /\ ~SomeUntyped(ds)) => (SameOrder(ds) /\ SameNames(ds))


\* The pre-order traversal of ds and the built tree flattened, node k of
\* the tree being built from entry k of the traversal
Source == SourceFlat(ds, 0)

Nodes == FlatAt(tree.roots, 0)

\* The placeholder shown for elided image data
Elided == <<"[", "I", "m", "a", "g", "e", " ", "D", "a", "t", "a", "]">>

\* The summary shown for a sequence of n items
SequenceSummary(n) ==
    <<"S", "e", "q", "u", "e", "n", "c", "e", ":", " ">> \o Dec(n) \o <<" ", "i", "t", "e", "m", "s">>

\* Entry k of the traversal is an Element named exactly "Pixel Data"
IsPixelData(k) == ~Source[k].header /\ Source[k].name = PixelDataName

RECURSIVE Printable(_)
\* The dataset with every value such that str() converts it
Printable(dataset) ==
    [k \in 1..Len(dataset) |->
        [dataset[k] EXCEPT !.str_fails = FALSE,
                           !.items = [i \in 1..Len(dataset[k].items) |-> Printable(dataset[k].items[i])]]]

\* Entry k of the traversal is an ordinary leaf whose value str() fails to
\* convert
FailsToPrint(k) ==
    /\ ~Source[k].header
    /\ Source[k].elem.has_VR /\ Source[k].elem.VR # SQ
    /\ Source[k].name # PixelDataName
    /\ Source[k].elem.has_value /\ Source[k].elem.str_fails

\* C14: a failure to stringify the value of a leaf is local: its node gets
\* the error placeholder as displayValue and "N/A" as typeLabel, the build
\* goes on, and every other node and the number of nodes are what they are
\* when every value can be stringified.
C14_StringifyFailureIsLocal ==
    Built =>
        LET succeeded == add_dicom_elements_to_tree(EmptyTree, Printable(ds), None)
        IN  /\ Len(tree.nodes) = Len(succeeded.tree.nodes)
            /\ tree.roots = succeeded.tree.roots
            /\ (status_label.kind = "Failed to open file: {}") = succeeded.raised
            /\ \A k \in 1..Len(Nodes) :
                LET node == tree.nodes[Nodes[k].item]
                    same == succeeded.tree.nodes[Nodes[k].item]
                IN  IF k <= Len(Source) /\ FailsToPrint(k)
                    THEN /\ node.text[1] = same.text[1]
                         /\ node.text[2] = same.text[2]
                         /\ node.text[3] = <<"N", "/", "A">>
                         /\ node.text[4] = <<"C", "a", "n", "n", "o", "t", " ", "d", "i", "s", "p", "l", "a", "y", ":", " ">> \o Source[k].elem.str_error
                         /\ node.children = same.children
                    ELSE node = same

\* A leaf inside an item of a sequence failed to be stringified and the
\* build went on to the Elements after the sequence
C14_Witness ==
    /\ Built
    /\ Len(Nodes) = Len(Source)
    /\ \E k \in 1..Len(Nodes) :
        /\ FailsToPrint(k)
        /\ Nodes[k].depth > 0
        /\ text(tree, Nodes[k].item, 2) = <<"N", "/", "A">>
        /\ \E later \in (k + 1)..Len(Nodes) : Nodes[later].depth = 0 /\ ~FailsToPrint(later)


\* C15: an Element without a tag or without a type code does not fail the
\* build: the node of an Element without a tag has the tagLabel "Unknown",
\* the node of an Element without a type code has the typeLabel "N/A", and
\* all the other Elements of the input are converted as well.
C15_AbsentTagOrTypeTolerated ==
    Built =>
        /\ status_label.kind # "Failed to open file: {}"
        /\ Len(Nodes) = Len(Source)
        /\ \A k \in 1..Len(Source) :
            (k <= Len(Nodes) /\ ~Source[k].header) =>
                /\ ~Source[k].elem.has_tag => text(tree, Nodes[k].item, 0) = <<"U", "n", "k", "n", "o", "w", "n">>
                /\ ~Source[k].elem.has_VR => text(tree, Nodes[k].item, 2) = <<"N", "/", "A">>

\* The half of C15 about the tag: the node of an Element without a tag that
\* has a type code is labelled "Unknown" and has the Element's name
AbsentTagIsUnknown ==
    Built =>
        \A k \in 1..Len(Nodes) :
            (k <= Len(Source) /\ ~Source[k].header /\ ~Source[k].elem.has_tag /\ Source[k].elem.has_VR) =>
                /\ text(tree, Nodes[k].item, 0) = <<"U", "n", "k", "n", "o", "w", "n">>
                /\ text(tree, Nodes[k].item, 1) = Source[k].name

====
